---- MODULE Spec2Model ----
(***************************************************************************)
(* Model of jrc_common.py: the retry decorator (retry), the generic URL    *)
(* fetcher (_call_url) and the DOI -> PMID resolution (get_pmid).          *)
(*                                                                         *)
(* The end of a call is a record: [kind |-> "return", val |-> <value>] or   *)
(* [kind |-> "raise", exc |-> <exception class>, args |-> <arguments>].    *)
(* Python values are tagged records: None, a str (its characters), a dict. *)
(***************************************************************************)
EXTENDS Integers, Sequences, FiniteSets, TLC

VARIABLES
    \* ---- retry(max_tries, delay, exceptions)(func) : one wrapped call ----
    max_tries,      \* decorator argument
    delay,          \* decorator argument
    exceptions,     \* decorator argument: the set of exception classes retried
    script,         \* the wrapped operation: outcome of its n-th invocation
    tries,          \* wrapper local
    rpc,            \* wrapper position: "loop" (head of the while) or "done"
    invocations,    \* how many times func was invoked
    sleeps,         \* the time.sleep arguments, in order
    rresult,        \* what the wrapper returned or raised
    \* ---- _call_url : the last call ----
    fcall,          \* arguments and upstream response of the last call
    fresult,        \* what the last call returned or raised
    fcalls,         \* number of _call_url invocations
    fgets,          \* number of requests.get calls issued by _call_url
    \* ---- get_pmid : one call ----
    ppc,            \* position: "primary", "gate", "secondary", "done"
    env_key,        \* whether NCBI_API_KEY is in os.environ
    primary,        \* upstream response of the ID-conversion service
    secondary,      \* upstream response of the PubMed search service
    primary_gets,   \* GETs issued to the ID-conversion service
    secondary_gets, \* GETs issued to the PubMed search service
    presult,        \* what get_pmid returned or raised
    \* ---- several threads, each in one call of the same retry-wrapped function ----
    cscript,        \* per thread: what its operation does on its n-th invocation
    ctries,         \* per call: the wrapper's local "tries"
    cpc,            \* per thread: "loop" or "done"
    cinvocations,   \* per thread: how many times its operation was invoked
    csleeps,        \* per thread: its time.sleep arguments, in order
    cresult,        \* per thread: what its call returned or raised
    \* ---- one call of an exported function that needs an environment variable ----
    xfn,            \* the function called
    xenv,           \* its environment variable: "missing", "empty" or "set"
    xpc,            \* "call" or "done"
    xtries,         \* the retry wrapper's "tries" (People calls)
    xinvocations,   \* how many times the function body was entered
    xgets,          \* requests.get calls issued
    xnets,          \* what each requests.get ended in, in order
    xsleeps,        \* time.sleep arguments, in order
    xresult         \* what the call returned or raised

retry_vars == <<max_tries, delay, exceptions, script, tries, rpc, invocations,
                sleeps, rresult>>
fetch_vars == <<fcall, fresult, fcalls, fgets>>
pmid_vars  == <<ppc, env_key, primary, secondary, primary_gets, secondary_gets,
                presult>>
conc_vars  == <<cscript, ctries, cpc, cinvocations, csleeps, cresult>>
call_vars  == <<xfn, xenv, xpc, xtries, xinvocations, xgets, xnets, xsleeps, xresult>>
vars == <<retry_vars, fetch_vars, pmid_vars, conc_vars, call_vars>>

\* ------------------------------------------------------------------------
\* Bounds of the model
\* ------------------------------------------------------------------------
MaxTriesBound == 3
MaxDelay == 2
MaxScript == 3
MaxCalls == 2
MaxConcScript == 2

\* ------------------------------------------------------------------------
\* Python values
\* ------------------------------------------------------------------------
PyNone == [t |-> "None"]
PyStr(s) == [t |-> "str", s |-> s]
PyDict(d) == [t |-> "dict", d |-> d]
\* {} - the empty mapping
EmptyMap == <<>>

Return(v) == [kind |-> "return", val |-> v]
RaiseWith(e, a) == [kind |-> "raise", exc |-> e, args |-> a]
Raise(e) == RaiseWith(e, <<>>)
Pending == [kind |-> "pending"]

\* ------------------------------------------------------------------------
\* Exceptions
\* ------------------------------------------------------------------------
\* TIMEOUT = (ConnectTimeout, ReadTimeout, Timeout)
TIMEOUT == {"ConnectTimeout", "ReadTimeout", "Timeout"}

\* The classes an exception of class e is an instance of (requests.exceptions:
\* ConnectTimeout(ConnectionError, Timeout), ReadTimeout(Timeout)).
Bases(e) ==
    CASE e = "ConnectTimeout" -> {"ConnectTimeout", "ConnectionError", "Timeout", "Exception"}
      [] e = "ReadTimeout"    -> {"ReadTimeout", "Timeout", "Exception"}
      [] OTHER                -> {e, "Exception"}

\* Mutant of IsRetryable: a bare "except:" that catches every exception.
IsRetryable_CatchAll(e, excs) == TRUE

\* "except exceptions:" - whether an exception of class e is caught.
IsRetryable(e, excs) == Bases(e) \cap excs # {}

\* ------------------------------------------------------------------------
\* retry
\* ------------------------------------------------------------------------
Min(a, b) == IF a <= b THEN a ELSE b

\* func(*args, **kwargs): the outcome of the n-th invocation of the wrapped
\* operation; after the end of its script it repeats its last outcome.
Func(n) == script[Min(n, Len(script))]

\* Mutant of WaitTime: the exponent is off by one.
WaitTime_OffByOne(d, t) == d * (2 ^ t)

\* wait_time = delay * (2 ** (tries - 1))
WaitTime(d, t) == d * (2 ^ (t - 1))

\* Mutant of IsFinalTry: the last failure is not recognised.
IsFinalTry_Late(t, m) == t > m

\* if tries == max_tries: raise
IsFinalTry(t, m) == t = m

\* Mutant of LoopGuard: the body runs once before the test, as in a do-while.
LoopGuard_DoWhile(t, m) == t < m \/ t = 0

\* while tries < max_tries:
LoopGuard(t, m) == t < m

\* What one invocation of a wrapped operation can end in.
Outcomes ==
    {Return(PyDict([nameFirst |-> "a"]))}
      \cup {Raise(e) : e \in {"ConnectTimeout", "ReadTimeout", "Timeout",
                               "ConnectionError", "Exception"}}

Scripts == UNION {[1..n -> Outcomes] : n \in 1..MaxScript}

\* The decorator arguments of the model
ExceptionSets == {TIMEOUT, {"ConnectionError"}}

\* try: return func(*args, **kwargs)
WrapperSuccess ==
    /\ rpc = "loop"
    /\ LoopGuard(tries, max_tries)
    /\ Func(invocations + 1).kind = "return"
    /\ invocations' = invocations + 1
    /\ rresult' = Func(invocations + 1)
    /\ rpc' = "done"
    /\ UNCHANGED <<max_tries, delay, exceptions, script, tries, sleeps>>
    /\ UNCHANGED <<fetch_vars, pmid_vars, conc_vars, call_vars>>

\* func raises an exception that "except exceptions:" does not catch
WrapperPropagate ==
    /\ rpc = "loop"
    /\ LoopGuard(tries, max_tries)
    /\ Func(invocations + 1).kind = "raise"
    /\ ~IsRetryable(Func(invocations + 1).exc, exceptions)
    /\ invocations' = invocations + 1
    /\ rresult' = Func(invocations + 1)
    /\ rpc' = "done"
    /\ UNCHANGED <<max_tries, delay, exceptions, script, tries, sleeps>>
    /\ UNCHANGED <<fetch_vars, pmid_vars, conc_vars, call_vars>>

\* func raises an exception caught by "except exceptions:": re-raise on the
\* last try, otherwise sleep and go back to the head of the loop
WrapperRetry ==
    /\ rpc = "loop"
    /\ LoopGuard(tries, max_tries)
    /\ Func(invocations + 1).kind = "raise"
    /\ IsRetryable(Func(invocations + 1).exc, exceptions)
    /\ invocations' = invocations + 1
    /\ tries' = tries + 1
    /\ IF IsFinalTry(tries + 1, max_tries)
       THEN /\ rresult' = Func(invocations + 1)
            /\ rpc' = "done"
            /\ UNCHANGED sleeps
       ELSE /\ sleeps' = Append(sleeps, WaitTime(delay, tries + 1))
            /\ UNCHANGED <<rresult, rpc>>
    /\ UNCHANGED <<max_tries, delay, exceptions, script>>
    /\ UNCHANGED <<fetch_vars, pmid_vars, conc_vars, call_vars>>

\* "while tries < max_tries" is false: the function body ends, returning None
WrapperExit ==
    /\ rpc = "loop"
    /\ ~LoopGuard(tries, max_tries)
    /\ rresult' = Return(PyNone)
    /\ rpc' = "done"
    /\ UNCHANGED <<max_tries, delay, exceptions, script, tries, invocations, sleeps>>
    /\ UNCHANGED <<fetch_vars, pmid_vars, conc_vars, call_vars>>

RetryNext == WrapperSuccess \/ WrapperPropagate \/ WrapperRetry \/ WrapperExit

\* ------------------------------------------------------------------------
\* retry, called from several threads at once
\* ------------------------------------------------------------------------
\* The threads, each of them inside one call of the same wrapped function.
\* max_tries, delay and exceptions are the decorator's closure: every call
\* reads them and none writes them.
Threads == {"a", "b"}

\* Mutant of Cell: one attempt counter for all the calls.
Cell_Shared(t) == "a"

\* "tries = 0" is a local of wrapper(): each call has its own cell
Cell(t) == t

\* What one invocation of thread t's operation can end in; outcomes carry the
\* name of the call they belong to.
ThreadOutcomes(t) ==
    {Return(PyStr(<<t>>)), RaiseWith("ReadTimeout", <<t>>),
     RaiseWith("ConnectionError", <<t>>)}

ThreadScripts(t) == UNION {[1..n -> ThreadOutcomes(t)] : n \in 1..MaxConcScript}

\* func(*args, **kwargs) in thread t: the outcome of its n-th invocation
ThreadFunc(t, n) == cscript[t][Min(n, Len(cscript[t]))]

\* try: return func(*args, **kwargs)
ThreadSuccess(t) ==
    /\ cpc[t] = "loop"
    /\ ctries[Cell(t)] < max_tries
    /\ ThreadFunc(t, cinvocations[t] + 1).kind = "return"
    /\ cinvocations' = [cinvocations EXCEPT ![t] = @ + 1]
    /\ cresult' = [cresult EXCEPT ![t] = ThreadFunc(t, cinvocations[t] + 1)]
    /\ cpc' = [cpc EXCEPT ![t] = "done"]
    /\ UNCHANGED <<cscript, ctries, csleeps>>
    /\ UNCHANGED <<retry_vars, fetch_vars, pmid_vars, call_vars>>

\* func raises an exception that "except exceptions:" does not catch
ThreadPropagate(t) ==
    /\ cpc[t] = "loop"
    /\ ctries[Cell(t)] < max_tries
    /\ ThreadFunc(t, cinvocations[t] + 1).kind = "raise"
    /\ ~IsRetryable(ThreadFunc(t, cinvocations[t] + 1).exc, exceptions)
    /\ cinvocations' = [cinvocations EXCEPT ![t] = @ + 1]
    /\ cresult' = [cresult EXCEPT ![t] = ThreadFunc(t, cinvocations[t] + 1)]
    /\ cpc' = [cpc EXCEPT ![t] = "done"]
    /\ UNCHANGED <<cscript, ctries, csleeps>>
    /\ UNCHANGED <<retry_vars, fetch_vars, pmid_vars, call_vars>>

\* func raises an exception caught by "except exceptions:": re-raise on the
\* last try, otherwise sleep (the thread alone blocks) and loop
ThreadRetry(t) ==
    /\ cpc[t] = "loop"
    /\ ctries[Cell(t)] < max_tries
    /\ ThreadFunc(t, cinvocations[t] + 1).kind = "raise"
    /\ IsRetryable(ThreadFunc(t, cinvocations[t] + 1).exc, exceptions)
    /\ cinvocations' = [cinvocations EXCEPT ![t] = @ + 1]
    /\ ctries' = [ctries EXCEPT ![Cell(t)] = @ + 1]
    /\ IF IsFinalTry(ctries[Cell(t)] + 1, max_tries)
       THEN /\ cresult' = [cresult EXCEPT ![t] = ThreadFunc(t, cinvocations[t] + 1)]
            /\ cpc' = [cpc EXCEPT ![t] = "done"]
            /\ UNCHANGED csleeps
       ELSE /\ csleeps' = [csleeps EXCEPT
                             ![t] = Append(@, WaitTime(delay, ctries[Cell(t)] + 1))]
            /\ UNCHANGED <<cresult, cpc>>
    /\ UNCHANGED cscript
    /\ UNCHANGED <<retry_vars, fetch_vars, pmid_vars, call_vars>>

\* "while tries < max_tries" is false: the call returns None
ThreadExit(t) ==
    /\ cpc[t] = "loop"
    /\ ~(ctries[Cell(t)] < max_tries)
    /\ cresult' = [cresult EXCEPT ![t] = Return(PyNone)]
    /\ cpc' = [cpc EXCEPT ![t] = "done"]
    /\ UNCHANGED <<cscript, ctries, cinvocations, csleeps>>
    /\ UNCHANGED <<retry_vars, fetch_vars, pmid_vars, call_vars>>

ThreadsSucceed == \E t \in Threads : ThreadSuccess(t)
ThreadsPropagate == \E t \in Threads : ThreadPropagate(t)
ThreadsRetry == \E t \in Threads : ThreadRetry(t)
ThreadsExit == \E t \in Threads : ThreadExit(t)

ConcNext == ThreadsSucceed \/ ThreadsPropagate \/ ThreadsRetry \/ ThreadsExit


\* ------------------------------------------------------------------------
\* The network: what requests.get does
\* ------------------------------------------------------------------------
\* requests.status_codes._codes[status][0] for the statuses it registers;
\* 599 is a status an upstream can send that the table does not hold.
Codes == [c \in {200, 400, 403, 404, 500} |->
            CASE c = 200 -> "ok"
              [] c = 400 -> "bad_request"
              [] c = 403 -> "forbidden"
              [] c = 404 -> "not_found"
              [] c = 500 -> "internal_server_error"]

Statuses == DOMAIN Codes \cup {599}

\* The exceptions requests.get raises (subclasses of RequestException).
TransportErrors == {"ConnectTimeout", "ReadTimeout", "ConnectionError"}

\* Documents of the ID-conversion service (JSON); an "ok" document carries
\* one record for the DOI that was asked for.
PrimaryDocs ==
    { EmptyMap,
      [status |-> "error"],
      [records |-> <<[doi |-> "d"]>>],
      [status |-> "error", records |-> <<[doi |-> "d", pmid |-> <<"4", "2">>]>>],
      [status |-> "ok", records |-> <<[doi |-> "d"]>>],
      [status |-> "ok", records |-> <<[doi |-> "d", pmid |-> <<"4", "2">>]>>] }

\* A response body: the syntax of its text and the document it denotes.
Body(syntax, doc) == [syntax |-> syntax, doc |-> doc]

JsonBodies == {Body("json", d) : d \in PrimaryDocs}

\* requests.get ended by raising
NetError(e) == [err |-> e]
\* requests.get ended with a response
NetResponse(status, body) == [err |-> "none", status |-> status, body |-> body]

\* ------------------------------------------------------------------------
\* _call_url
\* ------------------------------------------------------------------------
\* Mutant of GetsIssued: "if headers:" without its "else".
GetsIssued_Twice(headers) == IF headers # PyNone THEN 2 ELSE 1

\* lines 166-169: the number of requests.get calls of one invocation
GetsIssued(headers) == IF headers # PyNone THEN 1 ELSE 1

\* req.json()
ParseJson(url, body) ==
    IF body.syntax = "json"
    THEN Return(PyDict(body.doc))
    ELSE RaiseWith("JSONDecodeError", <<"Could not decode response from ", url>>)

\* xmltodict.parse(req.text)
ParseXml(url, body) ==
    IF body.syntax = "xml"
    THEN Return(PyDict(body.doc))
    ELSE RaiseWith("Exception", <<"Could not decode XML response from ", url>>)

\* lines 190-192: building the dict of the status error looks the status up
\* in requests.status_codes._codes; an unregistered status is a KeyError.
StatusError(url, status) ==
    IF status \in DOMAIN Codes
    THEN RaiseWith("Exception",
                   <<"Status", ToString(status), "Error", Codes[status], "URL", url>>)
    ELSE RaiseWith("KeyError", <<ToString(status)>>)

\* Mutant of HandleResponse: an unknown format is read as JSON.
HandleResponse_DefaultJson(url, fmt, allow, req) ==
    IF req.status = 200
    THEN IF fmt = "xml" THEN ParseXml(url, req.body) ELSE ParseJson(url, req.body)
    ELSE IF req.status \in allow THEN Return(PyDict(EmptyMap))
    ELSE StatusError(url, req.status)

\* Mutant of HandleResponse: the format is validated before the status.
HandleResponse_FormatFirst(url, fmt, allow, req) ==
    IF fmt \notin {"json", "xml"}
    THEN RaiseWith("Exception", <<"Unknown format: ", fmt>>)
    ELSE IF req.status = 200
    THEN IF fmt = "json" THEN ParseJson(url, req.body) ELSE ParseXml(url, req.body)
    ELSE IF req.status \in allow THEN Return(PyDict(EmptyMap))
    ELSE StatusError(url, req.status)

\* lines 172-192
HandleResponse(url, fmt, allow, req) ==
    IF req.status = 200
    THEN CASE fmt = "json" -> ParseJson(url, req.body)
           [] fmt = "xml"  -> ParseXml(url, req.body)
           [] OTHER        -> RaiseWith("Exception", <<"Unknown format: ", fmt>>)
    ELSE IF req.status \in allow THEN Return(PyDict(EmptyMap))
    ELSE StatusError(url, req.status)

\* _call_url(url, headers, timeout, fmt, allow) when requests.get ends in net
_call_url(url, headers, fmt, allow, net) ==
    IF net.err # "none"
    THEN Raise(net.err)
    ELSE HandleResponse(url, fmt, allow, net)

Urls == {"u1", "u2"}
Headers == {PyNone, PyDict([APIKey |-> "k"])}
Formats == {"json", "xml", "csv"}
AllowSets == {{404}, {400, 403, 404}, {}, {200, 404}, {500, 599}}
FetchBodies == {Body("json", [data |-> "j"]), Body("xml", [data |-> "x"]),
                Body("text", EmptyMap)}
FetchNets == {NetError(e) : e \in TransportErrors}
               \cup {NetResponse(st, b) : st \in Statuses, b \in FetchBodies}

\* The arguments of a call and what requests.get will end in
FetchCalls == [url : Urls, headers : Headers, fmt : Formats, allow : AllowSets,
               net : FetchNets]

NoNet == NetError("")
NoCall == [url |-> "", headers |-> PyNone, fmt |-> "", allow |-> {}, net |-> NoNet]

\* One invocation of _call_url with the arguments fcall
CallUrl ==
    /\ fcalls < MaxCalls
    /\ fresult' = _call_url(fcall.url, fcall.headers, fcall.fmt, fcall.allow, fcall.net)
    /\ fgets' = fgets + GetsIssued(fcall.headers)
    /\ fcalls' = fcalls + 1
    /\ UNCHANGED fcall
    /\ UNCHANGED <<retry_vars, pmid_vars, conc_vars, call_vars>>


\* ------------------------------------------------------------------------
\* get_pmid
\* ------------------------------------------------------------------------
\* Documents of the PubMed search service (XML, as xmltodict.parse maps them)
SecondaryDocs ==
    { [eSearchResult |-> [Count |-> "1", IdList |-> [Id |-> <<"4", "2">>]]],
      [eSearchResult |-> [Count |-> "1", IdList |-> [Id |-> <<"4", "a">>]]],
      [eSearchResult |-> [Count |-> "1", IdList |-> [Id |-> <<"x", "7">>]]],
      [eSearchResult |-> [Count |-> "0", ErrorList |-> [PhraseNotFound |-> "e"]]],
      [eSearchResult |-> [Count |-> "1"]],
      [eSearchResult |-> [Count |-> "0", ErrorList |-> [PhraseNotFound |-> "e"],
                          WarningList |-> [OutputMessage |-> "w"]]],
      [eSearchResult |-> [Count |-> "0", WarningList |-> [OutputMessage |-> "w"]]],
      [eSearchResult |-> [Count |-> "0"]],
      [eSearchResult |-> [Count |-> "2", IdList |-> [Id |-> <<"4", "2">>]]],
      [eSearchResult |-> [ERROR |-> "x"]],
      [html |-> "x"] }

PrimaryNets ==
    {NetError(e) : e \in TransportErrors}
      \cup {NetResponse(st, b) : st \in Statuses,
                                 b \in JsonBodies \cup {Body("text", EmptyMap)}}

SecondaryNets ==
    {NetError(e) : e \in TransportErrors}
      \cup {NetResponse(st, b) : st \in Statuses,
                                 b \in {Body("xml", d) : d \in SecondaryDocs}
                                         \cup {Body("text", EmptyMap)}}

Digits == {"0", "1", "2", "3", "4", "5", "6", "7", "8", "9"}

\* Mutant of isdigit: only the first character is tested.
isdigit_FirstOnly(s) == Len(s) > 0 /\ s[1] \in Digits

\* str.isdigit(): at least one character, and all of them digits
isdigit(s) == Len(s) > 0 /\ \A i \in 1..Len(s) : s[i] \in Digits

\* json.dumps(x, default=str)
JsonDumps(x) == [t |-> "json", of |-> x]

\* PMIDNotFound(message, details)
PMIDNotFound(message, details) ==
    [kind |-> "raise", exc |-> "PMIDNotFound", args |-> <<message>>,
     details |-> details]

\* A stage that neither returned nor raised: control goes on.
GoOn == [kind |-> "continue"]

\* Mutant of PrimaryStage: the status is compared with "OK".
PrimaryStage_WrongStatus(r) ==
    IF r.kind = "raise" THEN r
    ELSE LET response == r.val.d IN
         IF response # EmptyMap /\ "status" \in DOMAIN response
               /\ response.status = "OK"
         THEN Return(PyStr(response.records[1].pmid))
         ELSE GoOn

\* lines 788-793, on the outcome r of the _call_url call; subscripting
\* response['records'][0] raises KeyError or IndexError when there is no
\* such record
PrimaryStage(r) ==
    IF r.kind = "raise" THEN r
    ELSE LET response == r.val.d IN
         IF response # EmptyMap /\ "status" \in DOMAIN response
               /\ response.status = "ok"
         THEN IF "records" \notin DOMAIN response THEN Raise("KeyError")
              ELSE IF Len(response.records) = 0 THEN Raise("IndexError")
              ELSE IF "pmid" \in DOMAIN response.records[1]
                   THEN Return(PyStr(response.records[1].pmid))
                   ELSE GoOn
         ELSE GoOn

\* Mutant of Gate: the test of the environment is inverted.
Gate_Inverted(key) == IF key THEN Return(PyStr(<<>>)) ELSE GoOn

\* lines 794-795: if 'NCBI_API_KEY' not in os.environ: return ""
Gate(key) == IF ~key THEN Return(PyStr(<<>>)) ELSE GoOn

\* Mutant of Classify: the WarningList is looked for before the ErrorList.
Classify_WarningFirst(data) ==
    LET hasCount == "eSearchResult" \in DOMAIN data
                      /\ "Count" \in DOMAIN data.eSearchResult
        res == data.eSearchResult
    IN  IF hasCount /\ res.Count = "1"
        THEN IF "IdList" \in DOMAIN res /\ "Id" \in DOMAIN res.IdList
             THEN IF isdigit(res.IdList.Id)
                  THEN Return(PyStr(res.IdList.Id))
                  ELSE Return(PyNone)
             ELSE PMIDNotFound("Invalid PMID for ", JsonDumps(data))
        ELSE IF hasCount /\ res.Count = "0"
        THEN IF "WarningList" \in DOMAIN res
             THEN PMIDNotFound("No PMID found for ", JsonDumps(res.WarningList))
             ELSE IF "ErrorList" \in DOMAIN res
             THEN PMIDNotFound("No PMID found for ", JsonDumps(res.ErrorList))
             ELSE PMIDNotFound("No PMID found for ", JsonDumps(data))
        ELSE PMIDNotFound("Invalid PMID for ", JsonDumps(data))

\* lines 807-821, on the parsed document
Classify(data) ==
    LET hasCount == "eSearchResult" \in DOMAIN data
                      /\ "Count" \in DOMAIN data.eSearchResult
        res == data.eSearchResult
    IN  IF hasCount /\ res.Count = "1"
        THEN IF "IdList" \in DOMAIN res /\ "Id" \in DOMAIN res.IdList
             THEN IF isdigit(res.IdList.Id)
                  THEN Return(PyStr(res.IdList.Id))
                  ELSE Return(PyNone)
             ELSE PMIDNotFound("Invalid PMID for ", JsonDumps(data))
        ELSE IF hasCount /\ res.Count = "0"
        THEN IF "ErrorList" \in DOMAIN res
             THEN PMIDNotFound("No PMID found for ", JsonDumps(res.ErrorList))
             ELSE IF "WarningList" \in DOMAIN res
             THEN PMIDNotFound("No PMID found for ", JsonDumps(res.WarningList))
             ELSE PMIDNotFound("No PMID found for ", JsonDumps(data))
        ELSE PMIDNotFound("Invalid PMID for ", JsonDumps(data))

\* Mutant of SecondaryStage: a status other than 200 raises a plain Exception.
SecondaryStage_PlainError(net) ==
    IF net.err # "none" THEN Raise(net.err)
    ELSE IF net.status = 200
    THEN IF net.body.syntax = "xml"
         THEN Classify(net.body.doc)
         ELSE Raise("ExpatError")
    ELSE RaiseWith("Exception", <<"Status: ", ToString(net.status)>>)

\* lines 798-823, when requests.get ends in net
SecondaryStage(net) ==
    IF net.err # "none" THEN Raise(net.err)
    ELSE IF net.status = 200
    THEN IF net.body.syntax = "xml"
         THEN Classify(net.body.doc)
         ELSE Raise("ExpatError")
    ELSE PMIDNotFound("Could not find PMID for ",
                      [t |-> "text", s |-> <<"Status: ", ToString(net.status)>>])

\* lines 786-793: the ID-conversion service is asked through _call_url
GetPmidPrimary ==
    /\ ppc = "primary"
    /\ \E net \in PrimaryNets :
          LET out == PrimaryStage(_call_url("ncbi", PyNone, "json", {400, 403, 404}, net))
          IN  /\ primary' = net
              /\ primary_gets' = primary_gets + GetsIssued(PyNone)
              /\ IF out = GoOn
                 THEN ppc' = "gate" /\ UNCHANGED presult
                 ELSE ppc' = "done" /\ presult' = out
    /\ UNCHANGED <<env_key, secondary, secondary_gets>>
    /\ UNCHANGED <<retry_vars, fetch_vars, conc_vars, call_vars>>

\* lines 794-795
GetPmidGate ==
    /\ ppc = "gate"
    /\ IF Gate(env_key) = GoOn
       THEN ppc' = "secondary" /\ UNCHANGED presult
       ELSE ppc' = "done" /\ presult' = Gate(env_key)
    /\ UNCHANGED <<env_key, primary, secondary, primary_gets, secondary_gets>>
    /\ UNCHANGED <<retry_vars, fetch_vars, conc_vars, call_vars>>

\* lines 797-823: PubMed is asked with requests.get
GetPmidSecondary ==
    /\ ppc = "secondary"
    /\ \E net \in SecondaryNets :
          /\ secondary' = net
          /\ presult' = SecondaryStage(net)
    /\ secondary_gets' = secondary_gets + 1
    /\ ppc' = "done"
    /\ UNCHANGED <<env_key, primary, primary_gets>>
    /\ UNCHANGED <<retry_vars, fetch_vars, conc_vars, call_vars>>

PmidNext == GetPmidPrimary \/ GetPmidGate \/ GetPmidSecondary

\* ------------------------------------------------------------------------
\* Exported calls that need an environment variable
\* ------------------------------------------------------------------------
\* @retry(max_tries=4, delay=2) on the three People lookups
PeopleMaxTries == 4
PeopleDelay == 2

\* Mutant of PeopleExceptions: every exception is retried.
PeopleExceptions_Any == {"Exception"}

\* the decorator's default: exceptions=TIMEOUT
PeopleExceptions == TIMEOUT

PeopleCalls == {"call_people_by_id", "call_people_by_name", "call_people_by_suporg"}
PlainCalls == {"get_config", "call_elsevier", "call_protocolsio", "call_zenodo"}

\* The environment variable each call reads
EnvName(fn) ==
    CASE fn = "get_config"       -> "CONFIG_SERVER_URL"
      [] fn = "call_elsevier"    -> "ELSEVIER_API_KEY"
      [] fn \in PeopleCalls      -> "PEOPLE_API_KEY"
      [] fn = "call_protocolsio" -> "PROTOCOLS_API_TOKEN"
      [] fn = "call_zenodo"      -> "ZENODO_API_KEY"

\* The variable is absent, present with an empty value, or present with a value
EnvStates == {"missing", "empty", "set"}

\* Mutant of EnvLookup: the variable is read with a default, as os.getenv does.
EnvLookup_Default(fn, env) == GoOn

\* The first statement of each call: "if not os.environ.get(...): raise
\* ValueError" in _call_config_responder, os.environ[...] in the others
EnvLookup(fn, env) ==
    IF fn = "get_config"
    THEN IF env \in {"missing", "empty"}
         THEN RaiseWith("ValueError", <<"Missing environment variable ", EnvName(fn)>>)
         ELSE GoOn
    ELSE IF env = "missing" THEN RaiseWith("KeyError", <<EnvName(fn)>>) ELSE GoOn

\* What the upstreams of these calls answer
ExportedBodies ==
    {Body("json", [nameFirst |-> "a"]), Body("json", [nameFirst |-> ""]),
     Body("json", [nameLast |-> "b"]), Body("json", [config |-> [k |-> "v"]]),
     Body("text", EmptyMap)}
ExportedNets ==
    {NetError(e) : e \in TransportErrors}
      \cup {NetResponse(200, b) : b \in ExportedBodies}
      \cup {NetResponse(st, Body("text", EmptyMap)) : st \in {404, 500, 599}}

\* _call_config_responder after its check of the variable
ConfigResponder(url, net) ==
    IF net.err # "none" THEN Raise(net.err)
    ELSE IF net.status = 200
    THEN IF net.body.syntax = "json"
         THEN Return(PyDict(net.body.doc))
         ELSE RaiseWith("JSONDecodeError", <<"Could not decode response from ", url>>)
    ELSE RaiseWith("builtins.ConnectionError", <<"Could not get response from ", url>>)

\* get_config: (_call_config_responder(...))["config"], then the namespace
\* json.loads builds from it
ConfigNamespace(r) ==
    IF r.kind # "return" THEN r
    ELSE IF "config" \notin DOMAIN r.val.d THEN RaiseWith("KeyError", <<"config">>)
    ELSE Return([t |-> "namespace", d |-> r.val.d.config])

\* call_people_by_id after _call_url: a response without a first name is None
PeopleById(r) ==
    IF /\ r.kind = "return"
       /\ DOMAIN r.val.d # {}
       /\ \/ "nameFirst" \notin DOMAIN r.val.d
          \/ r.val.d.nameFirst = ""
    THEN Return(PyNone)
    ELSE r

\* The headers built from the variable
KeyHeaders == PyDict([APIKey |-> "k"])

\* One run of the body of fn when requests.get would end in net: its outcome
\* and the number of GETs it issued
CallBody(fn, env, net) ==
    IF EnvLookup(fn, env) # GoOn
    THEN [out |-> EnvLookup(fn, env), gets |-> 0]
    ELSE [out  |-> CASE fn = "get_config" -> ConfigNamespace(ConfigResponder(fn, net))
                     [] fn = "call_people_by_id" ->
                            PeopleById(_call_url(fn, KeyHeaders, "json", {404}, net))
                     [] OTHER -> _call_url(fn, KeyHeaders, "json", {404}, net),
          gets |-> IF fn = "get_config" THEN 1 ELSE GetsIssued(KeyHeaders)]

\* get_config, call_elsevier, call_protocolsio, call_zenodo: one run of the body
PlainCall ==
    /\ xpc = "call"
    /\ xfn \in PlainCalls
    /\ \E net \in ExportedNets :
         LET b == CallBody(xfn, xenv, net) IN
           /\ xresult' = b.out
           /\ xgets' = xgets + b.gets
           /\ xnets' = IF b.gets > 0 THEN Append(xnets, net) ELSE xnets
    /\ xinvocations' = xinvocations + 1
    /\ xpc' = "done"
    /\ UNCHANGED <<xfn, xenv, xtries, xsleeps>>
    /\ UNCHANGED <<retry_vars, fetch_vars, pmid_vars, conc_vars>>

\* A People lookup: one turn of the wrapper's loop around the body
PeopleAttempt ==
    /\ xpc = "call"
    /\ xfn \in PeopleCalls
    /\ IF xtries < PeopleMaxTries
       THEN \E net \in ExportedNets :
              LET b == CallBody(xfn, xenv, net) IN
                /\ xinvocations' = xinvocations + 1
                /\ xgets' = xgets + b.gets
                /\ xnets' = IF b.gets > 0 THEN Append(xnets, net) ELSE xnets
                /\ IF b.out.kind = "raise" /\ IsRetryable(b.out.exc, PeopleExceptions)
                   THEN /\ xtries' = xtries + 1
                        /\ IF IsFinalTry(xtries + 1, PeopleMaxTries)
                           THEN /\ xresult' = b.out
                                /\ xpc' = "done"
                                /\ UNCHANGED xsleeps
                           ELSE /\ xsleeps' = Append(xsleeps,
                                                     WaitTime(PeopleDelay, xtries + 1))
                                /\ UNCHANGED <<xresult, xpc>>
                   ELSE /\ xresult' = b.out
                        /\ xpc' = "done"
                        /\ UNCHANGED <<xtries, xsleeps>>
       ELSE /\ xresult' = Return(PyNone)
            /\ xpc' = "done"
            /\ UNCHANGED <<xtries, xinvocations, xgets, xnets, xsleeps>>
    /\ UNCHANGED <<xfn, xenv>>
    /\ UNCHANGED <<retry_vars, fetch_vars, pmid_vars, conc_vars>>

ExportNext == PlainCall \/ PeopleAttempt

\* ------------------------------------------------------------------------
\* Specifications
\* ------------------------------------------------------------------------
\* retry(max_tries, delay, exceptions)(func)(...) is entered: tries = 0
RetryInit ==
    /\ max_tries \in 0..MaxTriesBound
    /\ delay \in 1..MaxDelay
    /\ exceptions \in ExceptionSets
    /\ script \in Scripts
    /\ tries = 0
    /\ rpc = "loop"
    /\ invocations = 0
    /\ sleeps = <<>>
    /\ rresult = Pending
    /\ fcall = NoCall /\ fresult = Pending /\ fcalls = 0 /\ fgets = 0
    /\ ppc = "idle" /\ env_key = FALSE /\ primary = NoNet /\ secondary = NoNet
    /\ primary_gets = 0 /\ secondary_gets = 0 /\ presult = Pending
    /\ cscript = <<>> /\ ctries = <<>> /\ cpc = <<>> /\ cinvocations = <<>>
    /\ csleeps = <<>> /\ cresult = <<>>
    /\ xfn = "" /\ xenv = "" /\ xpc = "idle" /\ xtries = 0 /\ xinvocations = 0
    /\ xgets = 0 /\ xnets = <<>> /\ xsleeps = <<>> /\ xresult = Pending

RetrySpec == RetryInit /\ [][RetryNext]_vars

\* wrapper() is entered, the decorator having been given any integer max_tries
RetryAnyInit ==
    /\ max_tries \in (0 - 1)..MaxTriesBound
    /\ delay \in 1..MaxDelay
    /\ exceptions \in ExceptionSets
    /\ script \in Scripts
    /\ tries = 0
    /\ rpc = "loop"
    /\ invocations = 0
    /\ sleeps = <<>>
    /\ rresult = Pending
    /\ fcall = NoCall /\ fresult = Pending /\ fcalls = 0 /\ fgets = 0
    /\ ppc = "idle" /\ env_key = FALSE /\ primary = NoNet /\ secondary = NoNet
    /\ primary_gets = 0 /\ secondary_gets = 0 /\ presult = Pending
    /\ cscript = <<>> /\ ctries = <<>> /\ cpc = <<>> /\ cinvocations = <<>>
    /\ csleeps = <<>> /\ cresult = <<>>
    /\ xfn = "" /\ xenv = "" /\ xpc = "idle" /\ xtries = 0 /\ xinvocations = 0
    /\ xgets = 0 /\ xnets = <<>> /\ xsleeps = <<>> /\ xresult = Pending

RetryAnySpec == RetryAnyInit /\ [][RetryNext]_vars

\* _call_url is about to be called with the arguments fcall
FetchInit ==
    /\ fcall \in FetchCalls
    /\ fresult = Pending
    /\ fcalls = 0
    /\ fgets = 0
    /\ max_tries = 0 /\ delay = 0 /\ exceptions = {} /\ script = <<>>
    /\ tries = 0 /\ rpc = "idle" /\ invocations = 0 /\ sleeps = <<>>
    /\ rresult = Pending
    /\ ppc = "idle" /\ env_key = FALSE /\ primary = NoNet /\ secondary = NoNet
    /\ primary_gets = 0 /\ secondary_gets = 0 /\ presult = Pending
    /\ cscript = <<>> /\ ctries = <<>> /\ cpc = <<>> /\ cinvocations = <<>>
    /\ csleeps = <<>> /\ cresult = <<>>
    /\ xfn = "" /\ xenv = "" /\ xpc = "idle" /\ xtries = 0 /\ xinvocations = 0
    /\ xgets = 0 /\ xnets = <<>> /\ xsleeps = <<>> /\ xresult = Pending

FetchNext == CallUrl

FetchSpec == FetchInit /\ [][FetchNext]_vars

\* get_pmid(doi) is entered
PmidInit ==
    /\ ppc = "primary"
    /\ env_key \in BOOLEAN
    /\ primary = NoNet
    /\ secondary = NoNet
    /\ primary_gets = 0
    /\ secondary_gets = 0
    /\ presult = Pending
    /\ max_tries = 0 /\ delay = 0 /\ exceptions = {} /\ script = <<>>
    /\ tries = 0 /\ rpc = "idle" /\ invocations = 0 /\ sleeps = <<>>
    /\ rresult = Pending
    /\ fcall = NoCall /\ fresult = Pending /\ fcalls = 0 /\ fgets = 0
    /\ cscript = <<>> /\ ctries = <<>> /\ cpc = <<>> /\ cinvocations = <<>>
    /\ csleeps = <<>> /\ cresult = <<>>
    /\ xfn = "" /\ xenv = "" /\ xpc = "idle" /\ xtries = 0 /\ xinvocations = 0
    /\ xgets = 0 /\ xnets = <<>> /\ xsleeps = <<>> /\ xresult = Pending

PmidSpec == PmidInit /\ [][PmidNext]_vars

\* Every thread has entered wrapper() of the same decorated function
ConcInit ==
    /\ max_tries \in 0..MaxTriesBound
    /\ delay \in 1..MaxDelay
    /\ exceptions = TIMEOUT
    /\ cscript \in {f \in [Threads -> UNION {ThreadScripts(t) : t \in Threads}] :
                       \A t \in Threads : f[t] \in ThreadScripts(t)}
    /\ ctries = [c \in Threads |-> 0]
    /\ cpc = [t \in Threads |-> "loop"]
    /\ cinvocations = [t \in Threads |-> 0]
    /\ csleeps = [t \in Threads |-> <<>>]
    /\ cresult = [t \in Threads |-> Pending]
    /\ script = <<>> /\ tries = 0 /\ rpc = "idle" /\ invocations = 0
    /\ sleeps = <<>> /\ rresult = Pending
    /\ fcall = NoCall /\ fresult = Pending /\ fcalls = 0 /\ fgets = 0
    /\ ppc = "idle" /\ env_key = FALSE /\ primary = NoNet /\ secondary = NoNet
    /\ primary_gets = 0 /\ secondary_gets = 0 /\ presult = Pending
    /\ xfn = "" /\ xenv = "" /\ xpc = "idle" /\ xtries = 0 /\ xinvocations = 0
    /\ xgets = 0 /\ xnets = <<>> /\ xsleeps = <<>> /\ xresult = Pending

ConcSpec == ConcInit /\ [][ConcNext]_vars

\* An exported call is entered, its environment variable in one of its states
ExportInit ==
    /\ xfn \in PlainCalls \cup PeopleCalls
    /\ xenv \in EnvStates
    /\ xpc = "call"
    /\ xtries = 0
    /\ xinvocations = 0
    /\ xgets = 0
    /\ xnets = <<>>
    /\ xsleeps = <<>>
    /\ xresult = Pending
    /\ max_tries = 0 /\ delay = 0 /\ exceptions = {} /\ script = <<>>
    /\ tries = 0 /\ rpc = "idle" /\ invocations = 0 /\ sleeps = <<>>
    /\ rresult = Pending
    /\ fcall = NoCall /\ fresult = Pending /\ fcalls = 0 /\ fgets = 0
    /\ ppc = "idle" /\ env_key = FALSE /\ primary = NoNet /\ secondary = NoNet
    /\ primary_gets = 0 /\ secondary_gets = 0 /\ presult = Pending
    /\ cscript = <<>> /\ ctries = <<>> /\ cpc = <<>> /\ cinvocations = <<>>
    /\ csleeps = <<>> /\ cresult = <<>>

ExportSpec == ExportInit /\ [][ExportNext]_vars


\* ------------------------------------------------------------------------
\* Properties of retry (RetrySpec)
\* ------------------------------------------------------------------------
\* A failure of class e is in the retryable set: an instance of one of the
\* classes given as "exceptions".
Retryable(e) == \E c \in exceptions : c \in Bases(e)

\* The wrapped operation raises retryable failures on its first k invocations.
FailsFirst(k) ==
    /\ k <= Len(script)
    /\ \A i \in 1..k : script[i].kind = "raise" /\ Retryable(script[i].exc)

\* The sleeps so far are delay, 2*delay, 4*delay, ... : n of them
BackoffSleeps(n) ==
    /\ Len(sleeps) = n
    /\ \A i \in 1..n : sleeps[i] = delay * (2 ^ (i - 1))

\* C1: when the wrapped operation raises a retryable failure exactly k times
\* and then succeeds, with k < max_tries, the wrapper returns the operation's
\* value, the operation was invoked exactly k+1 times and exactly k sleeps
\* happened, the i-th lasting delay * 2^(i-1).
C1_RetryThenSuccess ==
    \A k \in 0..(Len(script) - 1) :
        (rpc = "done" /\ FailsFirst(k) /\ script[k + 1].kind = "return"
            /\ k < max_tries)
        => /\ rresult = script[k + 1]
           /\ invocations = k + 1
           /\ BackoffSleeps(k)

\* Witness of C1: a call that succeeded on its third invocation.
C1_Witness ==
    /\ rpc = "done" /\ FailsFirst(2) /\ Len(script) = 3
    /\ script[3].kind = "return" /\ max_tries = 3
    /\ rresult.kind = "return" /\ invocations = 3 /\ Len(sleeps) = 2

\* The wrapped operation raises a retryable failure on every invocation.
AlwaysFails == FailsFirst(Len(script))

\* What C2 says of a finished call whose operation always fails.
ExhaustedAsClaimed ==
    /\ rresult.kind = "raise"
    /\ invocations = max_tries
    /\ rresult = Func(invocations)
    /\ Len(sleeps) = max_tries - 1
    /\ \A n \in 2..max_tries : sleeps[n - 1] = delay * (2 ^ (n - 2))

\* C2 as stated: in every run the operation is invoked at most max_tries
\* times, and when it raises a retryable failure on every attempt it is invoked
\* exactly max_tries times, the last failure is raised to the caller, and
\* exactly max_tries-1 sleeps happen, the one before attempt n lasting
\* delay * 2^(n-2).
C2_AsStated ==
    /\ invocations <= max_tries
    /\ (rpc = "done" /\ AlwaysFails) => ExhaustedAsClaimed

\* C2 amended: the same, for max_tries >= 1.
C2_Exhausted ==
    max_tries >= 1 =>
        /\ invocations <= max_tries
        /\ (rpc = "done" /\ AlwaysFails) => ExhaustedAsClaimed

\* Witness of C2: three failed attempts, the third failure raised.
C2_Witness ==
    /\ rpc = "done" /\ AlwaysFails /\ max_tries = 3
    /\ invocations = 3 /\ rresult.kind = "raise" /\ Len(sleeps) = 2

Responded == fcalls >= 1 /\ fcall.net.err = "none"

\* C4 as stated: for every status code in the allowed-empty set the fetcher
\* returns an empty mapping and raises nothing, whatever the format and body.
C4_AsStated ==
    (Responded /\ fcall.net.status \in fcall.allow)
    => fresult = Return(PyDict(EmptyMap))

\* C4 amended: for every status code other than 200 in the allowed-empty set
\* the fetcher returns an empty mapping and raises nothing, whatever the
\* format and body.
C4_AllowedEmpty ==
    (Responded /\ fcall.net.status \in fcall.allow /\ fcall.net.status # 200)
    => fresult = Return(PyDict(EmptyMap))

\* Witness of C4: an allowed 404 with an unknown format and an XML body.
C4_Witness ==
    /\ Responded /\ fcall.net.status = 404 /\ 404 \in fcall.allow
    /\ fcall.fmt = "csv" /\ fcall.net.body.syntax = "xml"
    /\ fresult = Return(PyDict(EmptyMap))

\* C5 as stated: for every status code that is neither 200 nor allowed-empty
\* the fetcher raises the status error, which carries the status, a reason
\* text and the URL - also for a status with no registered reason text.
C5_AsStated ==
    (Responded /\ fcall.net.status # 200 /\ fcall.net.status \notin fcall.allow)
    => /\ fresult.kind = "raise"
       /\ fresult.exc = "Exception"
       /\ Len(fresult.args) = 6
       /\ fresult.args[1] = "Status" /\ fresult.args[2] = ToString(fcall.net.status)
       /\ fresult.args[3] = "Error"
       /\ fresult.args[5] = "URL" /\ fresult.args[6] = fcall.url

\* C6 as stated: a call whose format is neither 'json' nor 'xml' ends in the
\* 'Unknown format' error, whatever the upstream status code.
C6_AsStated ==
    (Responded /\ fcall.fmt \notin {"json", "xml"})
    => fresult = RaiseWith("Exception", <<"Unknown format: ", fcall.fmt>>)

\* C6 amended: a call whose format is neither 'json' nor 'xml' ends in the
\* 'Unknown format' error, and never in a returned result, when the upstream
\* answers with status 200.
C6_UnknownFormatOn200 ==
    (Responded /\ fcall.fmt \notin {"json", "xml"} /\ fcall.net.status = 200)
    => fresult = RaiseWith("Exception", <<"Unknown format: ", fcall.fmt>>)

\* Witness of C6: a 200 response with a valid JSON body and format 'csv'.
C6_Witness ==
    /\ Responded /\ fcall.fmt = "csv" /\ fcall.net.status = 200
    /\ fcall.net.body.syntax = "json"
    /\ fresult.kind = "raise" /\ fresult.args[1] = "Unknown format: "

\* C7: every invocation issues exactly one GET, whatever it ends in.
C7_OneGetPerCall == fgets = fcalls

\* Witness of C7: two invocations, each ended by a transport error.
C7_Witness ==
    /\ fcalls = 2 /\ fgets = 2 /\ fcall.net.err = "ConnectTimeout"
    /\ fresult = Raise("ConnectTimeout")


\* ------------------------------------------------------------------------
\* Properties of get_pmid (PmidSpec)
\* ------------------------------------------------------------------------
\* What the _call_url call of the primary stage ended in.
PrimaryFetch == _call_url("ncbi", PyNone, "json", {400, 403, 404}, primary)

\* The primary response has status "ok" and its first record has a pmid.
PrimaryHasPmid ==
    /\ primary_gets = 1 /\ PrimaryFetch.kind = "return"
    /\ LET doc == PrimaryFetch.val.d
       IN  /\ "status" \in DOMAIN doc /\ doc.status = "ok"
           /\ "records" \in DOMAIN doc /\ Len(doc.records) >= 1
           /\ "pmid" \in DOMAIN doc.records[1]

\* The primary stage was answered (a parsed document, or the empty mapping of
\* an allowed-empty 400/403/404) and yields no PMID.
PrimaryNoPmid ==
    primary_gets = 1 /\ PrimaryFetch.kind = "return" /\ ~PrimaryHasPmid

IsIdentifier(r) == r.kind = "return" /\ r.val.t = "str" /\ Len(r.val.s) > 0
IsEmptyString(r) == r = Return(PyStr(<<>>))
IsNotFound(r) == r.kind = "raise" /\ r.exc = "PMIDNotFound" /\ "details" \in DOMAIN r

\* The call ended by propagating a transport or a parse failure.
TransportOrParseFailure ==
    /\ presult.kind = "raise"
    /\ presult.exc \in TransportErrors \cup {"JSONDecodeError", "ExpatError"}

\* The call ended by propagating what the primary _call_url raised, or what
\* the secondary requests.get or xmltodict.parse raised.
PropagatedFailure ==
    \/ secondary_gets = 0 /\ PrimaryFetch.kind = "raise" /\ presult = PrimaryFetch
    \/ secondary_gets = 1 /\ secondary.err # "none" /\ presult = Raise(secondary.err)
    \/ /\ secondary_gets = 1 /\ secondary.err = "none" /\ secondary.status = 200
       /\ secondary.body.syntax # "xml" /\ presult = Raise("ExpatError")

C9_PrimaryHit ==
    PrimaryHasPmid
    => /\ ppc = "done"
       /\ presult = Return(PyStr(PrimaryFetch.val.d.records[1].pmid))
       /\ secondary_gets = 0

\* Witness of C9: a primary hit with NCBI_API_KEY set.
C9_Witness ==
    /\ PrimaryHasPmid /\ env_key /\ ppc = "done"
    /\ presult = Return(PyStr(<<"4", "2">>)) /\ secondary_gets = 0

\* C10: when the primary stage yields no PMID and NCBI_API_KEY is not set, the
\* call returns the empty string, raises nothing, and no request ever goes
\* to the secondary service.
C10_NoKeyNoSecondary ==
    (PrimaryNoPmid /\ ~env_key)
    => /\ secondary_gets = 0
       /\ ppc \in {"gate", "done"}
       /\ ppc = "done" => presult = Return(PyStr(<<>>))

\* Witness of C10: an allowed-empty 403 from the primary service, no key, and
\* the call has returned "".
C10_Witness ==
    /\ primary_gets = 1 /\ primary.err = "none" /\ primary.status = 403
    /\ ~env_key /\ ppc = "done"
    /\ presult = Return(PyStr(<<>>)) /\ secondary_gets = 0


\* The secondary service answered 200 with a well-formed document whose
\* eSearchResult has the given Count.
SecondaryCount(c) ==
    /\ secondary_gets = 1 /\ secondary.err = "none" /\ secondary.status = 200
    /\ secondary.body.syntax = "xml"
    /\ "eSearchResult" \in DOMAIN secondary.body.doc
    /\ "Count" \in DOMAIN secondary.body.doc.eSearchResult
    /\ secondary.body.doc.eSearchResult.Count = c

\* The part of the secondary document C11 names as the diagnostic detail.
ExpectedDetail ==
    LET res == secondary.body.doc.eSearchResult
    IN  IF "ErrorList" \in DOMAIN res THEN res.ErrorList
        ELSE IF "WarningList" \in DOMAIN res THEN res.WarningList
        ELSE secondary.body.doc

\* C11: on a 200 response whose Count is '0' the call raises PMIDNotFound, whose
\* detail is the serialized ErrorList when there is one, otherwise the
\* serialized WarningList when there is one, otherwise the serialized full
\* response; it never returns a value.
C11_CountZero ==
    SecondaryCount("0")
    => /\ ppc = "done"
       /\ presult.kind = "raise"
       /\ presult.exc = "PMIDNotFound"
       /\ presult.details = [t |-> "json", of |-> ExpectedDetail]

\* Witness of C11: Count '0' with both lists; the detail is the ErrorList.
C11_Witness ==
    /\ SecondaryCount("0")
    /\ "ErrorList" \in DOMAIN secondary.body.doc.eSearchResult
    /\ "WarningList" \in DOMAIN secondary.body.doc.eSearchResult
    /\ presult.kind = "raise" /\ presult.exc = "PMIDNotFound"
    /\ presult.details = [t |-> "json", of |-> [PhraseNotFound |-> "e"]]

\* A string of decimal digits, at least one.
PurelyNumeric(s) ==
    /\ Len(s) >= 1
    /\ \A i \in 1..Len(s) : s[i] \in {"0", "1", "2", "3", "4", "5", "6", "7", "8", "9"}

\* The secondary document has Count '1' and carries an identifier.
SecondaryOneId ==
    /\ SecondaryCount("1")
    /\ "IdList" \in DOMAIN secondary.body.doc.eSearchResult
    /\ "Id" \in DOMAIN secondary.body.doc.eSearchResult.IdList

\* C12: on a 200 response whose Count is '1' and that carries an identifier,
\* the call returns the identifier exactly when it is purely numeric and
\* otherwise returns None; it never returns a non-numeric identifier and
\* raises nothing.
C12_NumericOnly ==
    SecondaryOneId
    => LET id == secondary.body.doc.eSearchResult.IdList.Id
       IN  /\ ppc = "done"
           /\ presult = IF PurelyNumeric(id) THEN Return(PyStr(id)) ELSE Return(PyNone)

\* Witness of C12: the identifier "4a" was answered and None returned.
C12_Witness ==
    /\ SecondaryOneId
    /\ secondary.body.doc.eSearchResult.IdList.Id = <<"4", "a">>
    /\ ppc = "done" /\ presult = Return(PyNone)

\* ------------------------------------------------------------------------
\* Properties of concurrent retry-wrapped calls (ConcSpec)
\* ------------------------------------------------------------------------
\* The n-th invocation of thread t's own operation raises a retryable failure.
OwnFailure(t, n) ==
    LET o == cscript[t][IF n <= Len(cscript[t]) THEN n ELSE Len(cscript[t])]
    IN  o.kind = "raise" /\ Retryable(o.exc)

\* The number of attempts the call of thread t makes when it runs alone: up
\* to its first invocation that is not a retryable failure, max_tries at most.
SoloAttempts(t) ==
    IF max_tries <= 0 THEN 0
    ELSE IF \E n \in 1..max_tries : ~OwnFailure(t, n)
         THEN CHOOSE n \in 1..max_tries :
                  ~OwnFailure(t, n) /\ \A i \in 1..(n - 1) : OwnFailure(t, i)
         ELSE max_tries

\* The delays of the call of thread t when it runs alone.
SoloSleeps(t) == [i \in 1..(SoloAttempts(t) - 1) |-> delay * (2 ^ (i - 1))]

\* Thread t's result is an outcome of its own operation.
OwnOutcome(t) ==
    \E n \in 1..Len(cscript[t]) : cresult[t] = cscript[t][n]

C14_ConfigErrorFirst ==
    xenv = "missing" =>
        /\ xgets = 0
        /\ xnets = <<>>
        /\ xinvocations <= 1
        /\ xtries = 0
        /\ xsleeps = <<>>
        /\ xpc = "done" => xresult.kind = "raise" /\ xinvocations = 1

\* Witness of C14: a People lookup without PEOPLE_API_KEY has raised on its
\* first attempt.
C14_Witness ==
    /\ xfn = "call_people_by_suporg" /\ xenv = "missing" /\ xpc = "done"
    /\ xresult.kind = "raise" /\ xinvocations = 1 /\ xgets = 0 /\ xsleeps = <<>>

\* A GET that ended in a timeout-class transport failure.
TimedOut(net) == net.err \in {"ConnectTimeout", "ReadTimeout", "Timeout"}

\* A GET that was answered with status st.
Answered(net, st) == net.err = "none" /\ net.status = st

LastOutcome == script[IF invocations <= Len(script) THEN invocations ELSE Len(script)]

\* C16: a finished call of the wrapper has returned the wrapped operation's
\* own result or raised its own exception, having invoked it at least once,
\* exactly when max_tries >= 1; when max_tries <= 0 the operation is never
\* invoked, nothing is raised, no sleep happens and the wrapper returns None.
C16_WrapperEnds ==
    /\ max_tries <= 0 => invocations = 0 /\ tries = 0 /\ sleeps = <<>>
    /\ rpc = "done" =>
          /\ invocations >= 1 <=> max_tries >= 1
          /\ max_tries >= 1 => rresult = LastOutcome
          /\ max_tries <= 0 => rresult = Return(PyNone)

\* Witness of C16: a wrapper given a negative max_tries has returned None
\* without invoking the operation.
C16_Witness ==
    /\ rpc = "done" /\ max_tries < 0 /\ invocations = 0
    /\ rresult = Return(PyNone) /\ sleeps = <<>>
====
